---- MODULE Spec2Model ----
(***************************************************************************)
(* Model of the portfolio analytics service: the portfolio handlers, the   *)
(* Monte Carlo simulation handler and the risk parity optimization handler *)
(* over the DynamoDB tables and numpy's process-wide random generator.     *)
(*                                                                         *)
(* Python floats are modelled as exact rationals extended with NaN and     *)
(* +/-Infinity (records k/n/d); only np.sqrt rounds.                       *)
(***************************************************************************)
EXTENDS Integers, Sequences, FiniteSets, TLC

VARIABLES
    portfolioTable,   \* PORTFOLIO_TABLE: id -> item, NoItem when absent
    nextId,           \* the next uuid4 create_portfolio hands out
    clock,            \* datetime.utcnow() read by create_portfolio
    simCount,         \* number of items in SIMULATION_RESULT_TABLE
    optCount,         \* number of items in OPTIMIZATION_RESULT_TABLE
    rngState,         \* position of numpy's process-wide generator np.random
    prevSim,          \* the direct call of run_monte_carlo_simulation before the last
    lastSim,          \* the last direct call of run_monte_carlo_simulation
    call,             \* the handler invocation being answered: request, steps,
                      \* put_item calls, response; NoCall between invocations
    finalValues,      \* the final values handed to the statistics of the handler
    stats,            \* the statistics computed from finalValues
    clientTable,      \* dynamo_client.table_name of the module's singleton
    tables,           \* the ids of the items of each DynamoDB table
    threads,          \* the calls of the module functions of dynamo_client.py
                      \* in progress: function, arguments, position
    objects,          \* the Portfolio objects of lib/models/portfolio.py
    raised,           \* the last operation on a Portfolio raised ValueError
    converted,        \* the last conversion of a Portfolio: the object, its
                      \* dictionary, and what from_dict and to_dict make of it
    procs             \* handler invocations that run at the same time: the
                      \* request, the position in the handler, what was read

\* the state of the handlers
mainVars == <<portfolioTable, nextId, clock, simCount, optCount, rngState,
              prevSim, lastSim, call>>

\* the state of the statistics looked at on their own
statsVars == <<finalValues, stats>>

\* the state of the DynamoDB client looked at on its own
clientVars == <<clientTable, tables, threads>>

\* the state of the Portfolio model looked at on its own
modelVars == <<objects, raised, converted>>

auxVars == <<statsVars, clientVars, modelVars, procs>>

vars == <<mainVars, auxVars>>

-----------------------------------------------------------------------------
(* Bounds of the model *)

MaxPortfolios == 2
MaxResults == 1
MaxSimulations == 2
MaxPeriods == 2
MaxThreads == 2
MaxObjects == 2
MaxClock == 3
MaxProcs == 2

-----------------------------------------------------------------------------
(* Python floats: finite rationals n/d in lowest terms, NaN, +/-Infinity *)

RECURSIVE Gcd(_, _)
Gcd(a, b) == IF b = 0 THEN a ELSE Gcd(b, a % b)

Abs(x) == IF x < 0 THEN -x ELSE x

NaN == [k |-> "nan", n |-> 0, d |-> 1]
Inf(s) == [k |-> "inf", n |-> (IF s < 0 THEN -1 ELSE 1), d |-> 1]

Q(n, d) ==
    LET g == Gcd(Abs(n), Abs(d))
        s == IF d < 0 THEN -1 ELSE 1
    IN  [k |-> "fin", n |-> (s * n) \div g, d |-> (s * d) \div g]

I(n) == [k |-> "fin", n |-> n, d |-> 1]

IsFinite(x) == x.k = "fin"
IsNaN(x) == x.k = "nan"
Sign(x) == IF x.n < 0 THEN -1 ELSE IF x.n > 0 THEN 1 ELSE 0

Add(x, y) ==
    IF IsNaN(x) \/ IsNaN(y) THEN NaN
    ELSE IF x.k = "inf" /\ y.k = "inf" THEN (IF x.n = y.n THEN x ELSE NaN)
    ELSE IF x.k = "inf" THEN x
    ELSE IF y.k = "inf" THEN y
    ELSE LET g == Gcd(x.d, y.d)
         IN  Q(x.n * (y.d \div g) + y.n * (x.d \div g), (x.d \div g) * y.d)

Neg(x) == IF IsNaN(x) THEN NaN ELSE [x EXCEPT !.n = -x.n]

Sub(x, y) == Add(x, Neg(y))

Mul(x, y) ==
    IF IsNaN(x) \/ IsNaN(y) THEN NaN
    ELSE IF x.k = "inf" \/ y.k = "inf"
         THEN (IF Sign(x) * Sign(y) = 0 THEN NaN ELSE Inf(Sign(x) * Sign(y)))
    ELSE LET g1 == Gcd(Abs(x.n), y.d)
             g2 == Gcd(Abs(y.n), x.d)
         IN  Q((x.n \div g1) * (y.n \div g2), (x.d \div g2) * (y.d \div g1))

\* IEEE-754 division as numpy performs it: x/0 is NaN or +/-Infinity, with a
\* RuntimeWarning and no exception.
Div(x, y) ==
    IF IsNaN(x) \/ IsNaN(y) THEN NaN
    ELSE IF y.k = "inf" THEN (IF x.k = "inf" THEN NaN ELSE I(0))
    ELSE IF y.n = 0
         THEN (IF Sign(x) = 0 THEN NaN ELSE Inf(Sign(x)))
    ELSE IF x.k = "inf" THEN Inf(Sign(x) * Sign(y))
    ELSE Mul(x, Q(y.d, y.n))

\* x <= y on floats; every comparison with NaN is false.
Leq(x, y) ==
    IF IsNaN(x) \/ IsNaN(y) THEN FALSE
    ELSE IF x.k = "inf" THEN (x.n < 0 \/ (y.k = "inf" /\ y.n > 0))
    ELSE IF y.k = "inf" THEN y.n > 0
    ELSE LET g == Gcd(x.d, y.d)
         IN  x.n * (y.d \div g) <= y.n * (x.d \div g)

\* the largest r in lo..hi with r * r <= m, by bisection
RECURSIVE ISqrtIn(_, _, _)
ISqrtIn(m, lo, hi) ==
    IF lo >= hi THEN lo
    ELSE LET mid == (lo + hi + 1) \div 2
         IN  IF mid * mid <= m THEN ISqrtIn(m, mid, hi) ELSE ISqrtIn(m, lo, mid - 1)

ISqrt(m) == ISqrtIn(m, 0, IF m < 46340 THEN m ELSE 46340)

IsSquare(m) == ISqrt(m) * ISqrt(m) = m

\* the finest decimal grid 1/s on which sqrt(n/d) is computed within the
\* integers of the model
SqrtGrid(n) ==
    IF n <= 21 THEN 10000 ELSE IF n <= 2147 THEN 1000 ELSE IF n <= 214748 THEN 100
    ELSE IF n <= 21474836 THEN 10 ELSE 1

\* np.sqrt: NaN for a negative argument (RuntimeWarning), exact on squares of
\* rationals; otherwise rounded down to a multiple of 1/SqrtGrid.
Sqrt(x) ==
    IF IsNaN(x) THEN NaN
    ELSE IF x.k = "inf" THEN (IF x.n > 0 THEN x ELSE NaN)
    ELSE IF x.n < 0 THEN NaN
    ELSE IF IsSquare(x.n) /\ IsSquare(x.d) THEN Q(ISqrt(x.n), ISqrt(x.d))
    ELSE LET s == SqrtGrid(x.n)
         IN  Q(ISqrt((x.n * s * s) \div x.d), s)

RECURSIVE SumSeq(_)
SumSeq(s) == IF s = <<>> THEN I(0) ELSE Add(Head(s), SumSeq(Tail(s)))

\* np.dot of two vectors of equal length
Dot(u, v) == SumSeq([i \in 1..Len(u) |-> Mul(u[i], v[i])])

-----------------------------------------------------------------------------
(* JSON values of a request body and Python's view of them *)

Absent == [t |-> "absent", v |-> 0]      \* the key is not in the body
Null == [t |-> "null", v |-> 0]          \* JSON null, Python None
JInt(v) == [t |-> "int", v |-> v]
JFloat(v) == [t |-> "float", v |-> v]    \* the float v.0
JStr == [t |-> "str", v |-> 0]

\* body.get(key) is None
IsNone(x) == x.t \in {"absent", "null"}

\* body.get(key, default)
Get(x, default) == IF x.t = "absent" THEN default ELSE x

NoItem == [none |-> TRUE]
NoData == [none |-> TRUE]

Detail(m, a) == [m |-> m, a |-> a]

-----------------------------------------------------------------------------
(* lib/utils/response.py *)

\* success answering 202 whatever status it is given
success_Accepted(data, status_code) ==
    [statusCode |-> 202, code |-> "", details |-> <<>>, data |-> data]

success(data, status_code) ==
    [statusCode |-> status_code, code |-> "", details |-> <<>>, data |-> data]

error(status_code, error_code, details) ==
    [statusCode |-> status_code, code |-> error_code, details |-> details,
     data |-> NoData]

\* not_found answering as a bad request
not_found_BadRequest == error(400, "BAD_REQUEST", <<>>)

not_found == error(404, "NOT_FOUND", <<>>)

bad_request == error(400, "BAD_REQUEST", <<>>)

validation_error(details) == error(400, "VALIDATION_ERROR", details)

internal_server_error == error(500, "INTERNAL_SERVER_ERROR", <<>>)

-----------------------------------------------------------------------------
(* lib/models/portfolio.py *)

\* A dict of assets is a sequence of entries [t |-> ticker, w |-> weight] in
\* insertion order.
Asset(t, w) == [t |-> t, w |-> w]

TickerLen(t) == IF t = "LONGTICKER01" THEN 12 ELSE 1

Weights(assets) == [i \in 1..Len(assets) |-> assets[i].w]

AbsNum(x) == IF IsFinite(x) /\ x.n < 0 THEN Neg(x) ELSE IF x.k = "inf" THEN Inf(1) ELSE x

\* abs(total_weight - 1.0) > 0.0001
SumOff(assets) ==
    LET off == AbsNum(Sub(SumSeq(Weights(assets)), I(1)))
    IN  ~IsNaN(off) /\ ~Leq(off, Q(1, 10000))

\* Portfolio.validate_assets: TRUE when it raises ValueError
validate_assets_raises(assets) ==
    \/ assets = <<>>
    \/ \E i \in 1..Len(assets) : TickerLen(assets[i].t) > 10
    \/ \E i \in 1..Len(assets) :
          LET w == assets[i].w
          IN  (~IsNaN(w) /\ ~Leq(I(0), w)) \/ (~IsNaN(w) /\ ~Leq(w, I(1)))
    \/ SumOff(assets)

\* create_portfolio with the description left at its default
create_portfolio_NoDescription(name, assets, description, portfolio_id, created_at, now) ==
    [id |-> portfolio_id, name |-> name, description |-> "",
     assets |-> assets, created_at |-> created_at, updated_at |-> now]

\* create_portfolio followed by to_dict: the dictionary of the new Portfolio
create_portfolio(name, assets, description, portfolio_id, created_at, now) ==
    [id |-> portfolio_id, name |-> name, description |-> description,
     assets |-> assets, created_at |-> created_at, updated_at |-> now]

\* from_dict: Portfolio(**data) runs validate_assets; TRUE when it raises
from_dict_raises(data) == validate_assets_raises(data.assets)

\* Portfolio(**data): the object with the six fields of the keyword arguments
Portfolio(data) ==
    [cls |-> "Portfolio", id |-> data.id, name |-> data.name,
     description |-> data.description, assets |-> data.assets,
     created_at |-> data.created_at, updated_at |-> data.updated_at]

\* from_dict with a newly generated id in place of the dictionary's
from_dict_NewId(data) == Portfolio([data EXCEPT !.id = 0])

\* from_dict: Portfolio(**data)
from_dict(data) == Portfolio(data)

\* to_dict: model_dump(), the dictionary of the six fields
to_dict(portfolio) ==
    [id |-> portfolio.id, name |-> portfolio.name,
     description |-> portfolio.description, assets |-> portfolio.assets,
     created_at |-> portfolio.created_at, updated_at |-> portfolio.updated_at]

-----------------------------------------------------------------------------
(* lib/db/dynamo_client.py over the tables *)

\* query_by_id(PORTFOLIO_TABLE, item_id): the item, NoItem when there is none
query_by_id(table, item_id) ==
    IF item_id \in DOMAIN table THEN table[item_id] ELSE NoItem

-----------------------------------------------------------------------------
(* The returns of a request body *)

\* The value of one ticker in body["returns"]
List(s) == [t |-> "list", s |-> s]        \* a list of numbers
NotList == [t |-> "notlist", s |-> <<>>]  \* not a list, e.g. a string
NonNumeric == [t |-> "nonnum", s |-> <<>>] \* a list holding a non-number

\* body["returns"]
NoReturns == [t |-> "absent", m |-> <<>>]
StrReturns == [t |-> "str", m |-> <<>>]   \* a non-empty string
DictReturns(m) == [t |-> "dict", m |-> m]

Tickers == <<"A", "B", "C">>

\* the tickers of a returns dictionary, in the order of Tickers
KeysOf(m) == SelectSeq(Tickers, LAMBDA t : t \in DOMAIN m)

\* "not returns": None, the empty string, the empty dictionary
Falsy(returns) ==
    returns.t = "absent" \/ (returns.t = "dict" /\ DOMAIN returns.m = {})

RECURSIVE ReturnsFormatErrors(_, _)
ReturnsFormatErrors(m, keys) ==
    IF keys = <<>> THEN <<>>
    ELSE LET asset == Head(keys)
             e == IF m[asset].t = "notlist"
                  THEN <<Detail("Returns for asset must be a list", <<asset>>)>>
                  ELSE IF m[asset].t = "nonnum"
                  THEN <<Detail("Returns for asset must be numeric", <<asset>>)>>
                  ELSE <<>>
         IN  e \o ReturnsFormatErrors(m, Tail(keys))

\* the "Check required fields" and "Check returns" parts of validate_request,
\* the same in both compute handlers
ReturnsErrors(body) ==
    (IF body.portfolioId = 0
     THEN <<Detail("Portfolio ID is required", <<>>)>> ELSE <<>>)
    \o (IF Falsy(body.returns)
        THEN <<Detail("Returns data is required", <<>>)>>
        ELSE IF body.returns.t # "dict"
        THEN <<Detail("Returns data must be a dictionary", <<>>)>>
        ELSE ReturnsFormatErrors(body.returns.m, KeysOf(body.returns.m)))

\* missing_returns reporting only the first asset without a series
missing_returns_FirstOnly(assets, returns) ==
    LET asset_list == [i \in 1..Len(assets) |-> assets[i].t]
        missing == SelectSeq(asset_list, LAMBDA a : a \notin DOMAIN returns.m)
    IN  IF missing = <<>> THEN <<>> ELSE <<Head(missing)>>

\* [asset for asset in assets if asset not in returns]
missing_returns(assets, returns) ==
    LET asset_list == [i \in 1..Len(assets) |-> assets[i].t]
    IN  SelectSeq(asset_list, LAMBDA a : a \notin DOMAIN returns.m)

\* the rows of returns_matrix taken in the reverse of the order of the assets
ReturnsRows_Reversed(assets, returns) ==
    [i \in 1..Len(assets) |-> returns.m[assets[Len(assets) + 1 - i].t].s]

\* the rows of returns_matrix before np.array
ReturnsRows(assets, returns) ==
    [i \in 1..Len(assets) |-> returns.m[assets[i].t].s]

\* np.array(returns_matrix) of rows of unequal length is no matrix: numpy
\* raises ValueError (inhomogeneous shape) or builds a 1-d array of lists on
\* which np.mean(axis=1) and np.cov raise.
Ragged(rows) == \E i, j \in 1..Len(rows) : Len(rows[i]) # Len(rows[j])

\* np.mean(returns_matrix, axis=1)
np_mean(rows) ==
    [i \in 1..Len(rows) |-> Div(SumSeq(rows[i]), I(Len(rows[i])))]

\* np.cov(returns_matrix): rows are variables, ddof = 1; with fewer than two
\* observations the factor is 1/0.0
np_cov(rows) ==
    LET n == Len(rows)
        L == Len(rows[1])
        avg == np_mean(rows)
        X == [i \in 1..n |-> [k \in 1..L |-> Sub(rows[i][k], avg[i])]]
        fact == IF L - 1 <= 0 THEN 0 ELSE L - 1
    IN  [i \in 1..n |-> [j \in 1..n |->
            Mul(Dot(X[i], X[j]), Div(I(1), I(fact)))]]

\* np.dot(cov_matrix, weights)
MatVec(C, w) == [i \in 1..Len(C) |-> Dot(C[i], w)]

\* np.sqrt(np.dot(weights.T, np.dot(cov_matrix, weights)))
portfolio_volatility(w, C) == Sqrt(Dot(w, MatVec(C, w)))

-----------------------------------------------------------------------------
(* numpy's process-wide generator: np.random *)

\* The stream of standard normal samples the generator produces; it is
\* periodic, and rngState is the position in it.
ZStream == <<I(2), I(-1), I(0), I(1)>>

RngStates == 0..(Len(ZStream) - 1)

StreamAt(p) == ZStream[(p % Len(ZStream)) + 1]

\* np.random.normal(loc, scale, size) with the generator at position p:
\* loc + scale * z for the next size samples z. A NaN scale gives NaN.
np_random_normal(loc, scale, size, p) ==
    [t \in 1..size |-> Add(loc, Mul(scale, StreamAt(p + t - 1)))]

\* the state of the generator after n samples from position p
Advance(p, n) == (p + n) % Len(ZStream)

-----------------------------------------------------------------------------
(* functions/monte_carlo/simulate.py *)

\* a JSON number (or None) stored into a float64 array
ToFloat(x) == IF IsNone(x) THEN NaN ELSE I(x.v)

\* PathValue adding each period's return on the initial value, not compounding
RECURSIVE PathValue_Simple(_, _, _)
PathValue_Simple(v0, random_returns, t) ==
    IF t = 0 THEN v0
    ELSE Add(PathValue_Simple(v0, random_returns, t - 1), Mul(v0, random_returns[t]))

\* simulation_results[i, t] = simulation_results[i, t - 1] * (1 + random_returns[t - 1])
RECURSIVE PathValue(_, _, _)
PathValue(v0, random_returns, t) ==
    IF t = 0 THEN v0
    ELSE Mul(PathValue(v0, random_returns, t - 1), Add(I(1), random_returns[t]))

\* PathRow without simulation_results[:, 0] = initial_investment: the row
\* starts at the first compounded value and has one column less
PathRow_NoColumnZero(initial_investment, random_returns, num_periods) ==
    [c \in 1..num_periods |->
        PathValue(ToFloat(initial_investment), random_returns, c)]

\* row i of simulation_results: column 0 is the initial investment
PathRow(initial_investment, random_returns, num_periods) ==
    [c \in 1..(num_periods + 1) |->
        PathValue(ToFloat(initial_investment), random_returns, c - 1)]

\* run_monte_carlo_simulation with np.random at position rng. None as a size
\* raises TypeError in np.zeros((num_simulations, num_periods + 1)).
run_monte_carlo_simulation(weights, mean_returns, cov_matrix, initial_investment, num_periods, num_simulations, rng) ==
    IF IsNone(num_periods) \/ IsNone(num_simulations)
    THEN [raised |-> TRUE, results |-> <<>>, draws |-> <<>>, rng |-> rng]
    ELSE
    LET portfolio_mean == Dot(mean_returns, weights)
        vol == portfolio_volatility(weights, cov_matrix)
        P == num_periods.v
        N == num_simulations.v
        random_returns == [i \in 1..N |->
            np_random_normal(portfolio_mean, vol, P, rng + (i - 1) * P)]
    IN  [raised |-> FALSE,
         results |-> [i \in 1..N |-> PathRow(initial_investment, random_returns[i], P)],
         draws |-> random_returns,
         rng |-> Advance(rng, N * P)]

\* initial_investment is not None and
\*   (not isinstance(initial_investment, (int, float)) or initial_investment <= 0)
InvalidNumber(x) == ~IsNone(x) /\ (x.t \notin {"int", "float"} \/ x.v <= 0)

\* num is not None and (not isinstance(num, int) or num <= 0)
InvalidInt(x) == ~IsNone(x) /\ (x.t # "int" \/ x.v <= 0)

validate_request_sim(body) ==
    ReturnsErrors(body)
    \o (IF InvalidNumber(body.initialInvestment)
        THEN <<Detail("Initial investment must be a positive number", <<>>)>>
        ELSE <<>>)
    \o (IF InvalidInt(body.numSimulations)
        THEN <<Detail("Number of simulations must be a positive integer", <<>>)>>
        ELSE <<>>)
    \o (IF InvalidInt(body.numPeriods)
        THEN <<Detail("Number of periods must be a positive integer", <<>>)>>
        ELSE <<>>)

DefaultInitialInvestment == 10000
DefaultNumSimulations == 1000
DefaultNumPeriods == 252

\* np.min / np.max / np.mean of the final values; NaN propagates
RECURSIVE MinSeq(_)
MinSeq(s) ==
    IF Len(s) = 1 THEN s[1]
    ELSE LET m == MinSeq(Tail(s))
         IN  IF IsNaN(s[1]) \/ IsNaN(m) THEN NaN
             ELSE IF Leq(s[1], m) THEN s[1] ELSE m

RECURSIVE MaxSeq(_)
MaxSeq(s) ==
    IF Len(s) = 1 THEN s[1]
    ELSE LET m == MaxSeq(Tail(s))
         IN  IF IsNaN(s[1]) \/ IsNaN(m) THEN NaN
             ELSE IF Leq(m, s[1]) THEN s[1] ELSE m

MeanSeq(s) == Div(SumSeq(s), I(Len(s)))

HasNaN(s) == \E i \in 1..Len(s) : IsNaN(s[i])

\* s with x put before the first element that is not below it
RECURSIVE Insert(_, _)
Insert(x, s) ==
    IF s = <<>> THEN <<x>>
    ELSE IF Leq(x, Head(s)) THEN <<x>> \o s
    ELSE <<Head(s)>> \o Insert(x, Tail(s))

\* the values in ascending order, as np.percentile and np.median partition
\* them (s holds no NaN)
RECURSIVE np_sort(_)
np_sort(s) == IF s = <<>> THEN <<>> ELSE Insert(Head(s), np_sort(Tail(s)))

\* Percentile taking the order statistic below the position, no interpolation
Percentile_Lower(s, q) ==
    IF HasNaN(s) THEN NaN
    ELSE np_sort(s)[(((Len(s) - 1) * q) \div 100) + 1]

\* np.percentile(s, q), method "linear": the position (n - 1) * q / 100 among
\* the sorted values, interpolated between its two neighbours; NaN when s
\* holds a NaN
Percentile(s, q) ==
    IF HasNaN(s) THEN NaN
    ELSE LET sorted == np_sort(s)
             n == Len(s)
             previous == ((n - 1) * q) \div 100
             gamma == Q(((n - 1) * q) % 100, 100)
             next == IF previous + 1 < n THEN previous + 1 ELSE n - 1
         IN  Add(sorted[previous + 1],
                 Mul(gamma, Sub(sorted[next + 1], sorted[previous + 1])))

\* np.median(s): the middle value, the mean of the two middle values when
\* there are two; NaN when s holds a NaN
Median(s) ==
    IF HasNaN(s) THEN NaN
    ELSE LET sorted == np_sort(s)
             n == Len(s)
         IN  IF n % 2 = 1 THEN sorted[(n + 1) \div 2]
             ELSE Div(Add(sorted[n \div 2], sorted[(n \div 2) + 1]), I(2))

\* a deviation as it enters the sum of squares: rounded down to a multiple
\* of 1/10 (to an integer when out of range), NaN and Infinity kept
RoundDeviation(x) ==
    IF ~IsFinite(x) THEN x
    ELSE IF Abs(x.n) <= 214748364 THEN Q((x.n * 10) \div x.d, 10)
    ELSE Q(x.n \div x.d, 1)

\* np.std(s): the population standard deviation sqrt(mean(|x - mean|^2))
StdDev(s) ==
    LET avg == MeanSeq(s)
        dev == [i \in 1..Len(s) |-> RoundDeviation(Sub(s[i], avg))]
    IN  Sqrt(MeanSeq([i \in 1..Len(s) |-> Mul(dev[i], dev[i])]))

\* the "Calculate statistics" and "Calculate percentiles" parts of the handler
statistics(final_values) ==
    [meanFinalValue |-> MeanSeq(final_values),
     medianFinalValue |-> Median(final_values),
     minFinalValue |-> MinSeq(final_values),
     maxFinalValue |-> MaxSeq(final_values),
     standardDeviation |-> StdDev(final_values),
     percentiles |-> [p5 |-> Percentile(final_values, 5),
                      p25 |-> Percentile(final_values, 25),
                      p50 |-> Percentile(final_values, 50),
                      p75 |-> Percentile(final_values, 75),
                      p95 |-> Percentile(final_values, 95)]]

Outcome(resp, steps, writes, rng) ==
    [resp |-> resp, steps |-> steps, writes |-> writes, rng |-> rng,
     draws |-> <<>>,      \* what np.random.normal returned, per path
     solver |-> NoData,   \* what minimize returned
     evals |-> <<>>]      \* the evaluations of risk_parity_objective known of

Write(table, item) == [table |-> table, item |-> item]

\* dynamo_client.delete_item(table, {"id": key})
Removal(table, key) == [table |-> table, item |-> NoItem, key |-> key]

\* lambda_handler of simulate.py on the portfolio table, with np.random at rng:
\* the response, the steps taken, the put_item calls and np.random afterwards
lambda_handler_sim(body, table, rng) ==
    LET validation_errors == validate_request_sim(body) IN
    IF validation_errors # <<>>
    THEN Outcome(validation_error(validation_errors), <<"validate_request">>, <<>>, rng)
    ELSE
    LET portfolio == query_by_id(table, body.portfolioId) IN
    IF portfolio = NoItem
    THEN Outcome(not_found, <<"validate_request", "query_by_id">>, <<>>, rng)
    ELSE
    LET initial_investment == Get(body.initialInvestment, JInt(DefaultInitialInvestment))
        num_simulations == Get(body.numSimulations, JInt(DefaultNumSimulations))
        num_periods == Get(body.numPeriods, JInt(DefaultNumPeriods))
        assets == portfolio.assets
        missing == missing_returns(assets, body.returns)
    IN
    IF missing # <<>>
    THEN Outcome(validation_error(<<Detail("Returns data missing for assets", missing)>>),
                 <<"validate_request", "query_by_id">>, <<>>, rng)
    ELSE
    LET rows == ReturnsRows(assets, body.returns) IN
    IF Ragged(rows)
    THEN Outcome(internal_server_error,
                 <<"validate_request", "query_by_id", "np.array">>, <<>>, rng)
    ELSE
    LET mean_returns == np_mean(rows)
        cov_matrix == np_cov(rows)
        weights == Weights(assets)
        sim == run_monte_carlo_simulation(weights, mean_returns, cov_matrix,
                   initial_investment, num_periods, num_simulations, rng)
    IN
    IF sim.raised
    THEN Outcome(internal_server_error,
                 <<"validate_request", "query_by_id", "np.array", "np.mean", "np.cov",
                   "run_monte_carlo_simulation">>, <<>>, sim.rng)
    ELSE
    LET final_values == [i \in 1..Len(sim.results) |->
                            sim.results[i][Len(sim.results[i])]]
        simulation_result ==
            [portfolioId |-> body.portfolioId,
             parameters |-> [initialInvestment |-> initial_investment,
                             numSimulations |-> num_simulations,
                             numPeriods |-> num_periods],
             result |-> [trajectories |-> sim.results,
                         statistics |-> statistics(final_values)]]
    IN  [Outcome(success(simulation_result, 200),
                 <<"validate_request", "query_by_id", "np.array", "np.mean", "np.cov",
                   "run_monte_carlo_simulation", "statistics", "put_item">>,
                 <<Write("SIMULATION_RESULT_TABLE", simulation_result)>>, sim.rng)
         EXCEPT !.draws = sim.draws]

-----------------------------------------------------------------------------
(* functions/optimization/risk_parity.py *)

\* the portfolio variance as the objective in place of the spread of the
\* risk contributions
risk_parity_objective_Variance(weights, cov_matrix) ==
    Dot(weights, MatVec(cov_matrix, weights))

\* risk_parity_objective: no check of portfolio_volatility before dividing.
\* For a positive variance each term (risk_contribution[i] - risk_target)^2 is
\* (marginal_contribution[i] * weights[i] - portfolio_variance / n)^2
\* / portfolio_variance, so the value is computed without rounding np.sqrt.
risk_parity_objective(weights, cov_matrix) ==
    LET portfolio_variance == Dot(weights, MatVec(cov_matrix, weights))
        vol == Sqrt(portfolio_variance)
        marginal_contribution == MatVec(cov_matrix, weights)
        risk_contribution == [i \in 1..Len(weights) |->
            Div(Mul(marginal_contribution[i], weights[i]), vol)]
        risk_target == Div(vol, I(Len(weights)))
        diff == [i \in 1..Len(weights) |-> Sub(risk_contribution[i], risk_target)]
        scaled == [i \in 1..Len(weights) |->
            Sub(Mul(marginal_contribution[i], weights[i]),
                Div(portfolio_variance, I(Len(weights))))]
    IN  IF IsFinite(portfolio_variance) /\ portfolio_variance.n > 0
        THEN Div(SumSeq([i \in 1..Len(weights) |-> Mul(scaled[i], scaled[i])]),
                 portfolio_variance)
        ELSE SumSeq([i \in 1..Len(weights) |-> Mul(diff[i], diff[i])])

\* np.array([1.0 / len(asset_list)] * len(asset_list))
initial_weights(n) == [i \in 1..n |-> Q(1, n)]

\* The points scipy's SLSQP can end at, on a grid: inside the bounds (0, 1)
\* and with the constraint sum(x) = 1 met up to the solver's residual.
GridValues == {I(0), Q(1, 4), Q(1, 2), Q(3, 4), I(1)}
SolverResidual == Q(1, 4)

Vectors(n) == [1..n -> GridValues]

Feasible(n) ==
    {x \in Vectors(n) : Leq(AbsNum(Sub(SumSeq(x), I(1))), SolverResidual)}

Solution(ok, x) == [success |-> ok, x |-> x]

\* minimize(risk_parity_objective, initial_weights, method="SLSQP", bounds,
\* constraints, maxiter): the solver is a black box. It evaluates the objective
\* at initial_weights first. Where that value is 0, the least a sum of squares
\* takes, the feasible start is a minimum: the solver finds no descent and
\* returns it. Otherwise it may fail; when it succeeds its x is feasible, and
\* with a NaN objective it has not moved from initial_weights.
minimize(x0, cov_matrix) ==
    IF risk_parity_objective(x0, cov_matrix) = I(0)
    THEN {Solution(TRUE, x0)}
    ELSE {Solution(FALSE, x0)} \cup
         (IF IsNaN(risk_parity_objective(x0, cov_matrix))
          THEN {Solution(TRUE, x0)}
          ELSE {Solution(TRUE, x) : x \in Feasible(Len(x0))})

\* Normalize leaving result.x as the solver returned it
Normalize_Skipped(x) == x

\* optimized_weights = result.x / np.sum(result.x)
Normalize(x) == [i \in 1..Len(x) |-> Div(x[i], SumSeq(x))]

MaxIterations == 1000

\* the "Calculate risk contribution" part of the handler
metrics(asset_list, optimized_weights, cov_matrix) ==
    LET vol == portfolio_volatility(optimized_weights, cov_matrix)
        marginal_contribution == MatVec(cov_matrix, optimized_weights)
    IN  [portfolioVolatility |-> vol,
         riskContribution |-> [i \in 1..Len(asset_list) |->
             Asset(asset_list[i],
                   Div(Mul(marginal_contribution[i], optimized_weights[i]), vol))]]

\* post_process reporting the metrics of result.x as the solver returned it
post_process_RawMetrics(asset_list, x, cov_matrix) ==
    LET optimized_weights == Normalize(x)
    IN  [weights |-> [i \in 1..Len(asset_list) |->
                         Asset(asset_list[i], optimized_weights[i])],
         metrics |-> metrics(asset_list, x, cov_matrix)]

\* the "Get optimized weights" and "Calculate risk contribution" parts of the
\* handler: the "result" entry of optimization_result
post_process(asset_list, x, cov_matrix) ==
    LET optimized_weights == Normalize(x)
    IN  [weights |-> [i \in 1..Len(asset_list) |->
                         Asset(asset_list[i], optimized_weights[i])],
         metrics |-> metrics(asset_list, optimized_weights, cov_matrix)]

\* optimization_failed answered by the handler's catch-all branch
optimization_failed_CatchAll == internal_server_error

\* the response to a solver result with success = False
optimization_failed == error(500, "OPTIMIZATION_ERROR", <<>>)

Evaluation(w, cov_matrix) ==
    [w |-> w, vol |-> portfolio_volatility(w, cov_matrix),
     value |-> risk_parity_objective(w, cov_matrix)]

\* TRUE when a compute handler gets past np.array(returns_matrix), given that
\* validate_request accepts the body
ReachesCompute(body, table) ==
    /\ ReturnsErrors(body) = <<>>
    /\ query_by_id(table, body.portfolioId) # NoItem
    /\ missing_returns(query_by_id(table, body.portfolioId).assets, body.returns) = <<>>
    /\ ~Ragged(ReturnsRows(query_by_id(table, body.portfolioId).assets, body.returns))

\* lambda_handler of risk_parity.py on the portfolio table; sol is what
\* minimize returns when the handler calls it
lambda_handler_opt(body, table, sol) ==
    LET validation_errors == ReturnsErrors(body) IN
    IF validation_errors # <<>>
    THEN Outcome(validation_error(validation_errors), <<"validate_request">>, <<>>, 0)
    ELSE
    LET portfolio == query_by_id(table, body.portfolioId) IN
    IF portfolio = NoItem
    THEN Outcome(not_found, <<"validate_request", "query_by_id">>, <<>>, 0)
    ELSE
    LET assets == portfolio.assets
        missing == missing_returns(assets, body.returns)
    IN
    IF missing # <<>>
    THEN Outcome(validation_error(<<Detail("Returns data missing for assets", missing)>>),
                 <<"validate_request", "query_by_id">>, <<>>, 0)
    ELSE
    LET rows == ReturnsRows(assets, body.returns) IN
    IF Ragged(rows)
    THEN Outcome(internal_server_error,
                 <<"validate_request", "query_by_id", "np.array">>, <<>>, 0)
    ELSE
    LET asset_list == [i \in 1..Len(assets) |-> assets[i].t]
        cov_matrix == np_cov(rows)
        x0 == initial_weights(Len(asset_list))
        evals == <<Evaluation(x0, cov_matrix)>>
    IN
    IF ~sol.success
    THEN [Outcome(optimization_failed,
                  <<"validate_request", "query_by_id", "np.array", "np.cov", "minimize">>,
                  <<>>, 0) EXCEPT !.evals = evals, !.solver = sol]
    ELSE
    LET optimization_result ==
            [portfolioId |-> body.portfolioId,
             type |-> "risk-parity",
             parameters |-> [method |-> "SLSQP", maxIterations |-> MaxIterations],
             result |-> post_process(asset_list, sol.x, cov_matrix)]
    IN  [Outcome(success(optimization_result, 200),
                 <<"validate_request", "query_by_id", "np.array", "np.cov", "minimize",
                   "risk_contribution", "put_item">>,
                 <<Write("OPTIMIZATION_RESULT_TABLE", optimization_result)>>, 0)
         EXCEPT !.evals = evals, !.solver = sol]

-----------------------------------------------------------------------------
(* functions/portfolios/create.py *)

validate_request_create(body) ==
    (IF body.name = "" THEN <<Detail("Name is required", <<>>)>> ELSE <<>>)
    \o (IF body.assets = <<>>
        THEN <<Detail("Assets are required", <<>>)>>
        ELSE IF SumOff(body.assets)
        THEN <<Detail("Asset weights must sum to 1.0", <<>>)>>
        ELSE <<>>)

\* lambda_handler of create.py; portfolio_id is the uuid4 and now the time
\* create_portfolio obtains
lambda_handler_create(body, portfolio_id, now) ==
    LET validation_errors == validate_request_create(body) IN
    IF validation_errors # <<>>
    THEN Outcome(validation_error(validation_errors), <<"validate_request">>, <<>>, 0)
    ELSE IF validate_assets_raises(body.assets)
    THEN Outcome(validation_error(<<Detail("Invalid portfolio data", <<>>)>>),
                 <<"validate_request", "create_portfolio">>, <<>>, 0)
    ELSE
    LET portfolio_dict == create_portfolio(body.name, body.assets, body.description,
                                           portfolio_id, now, now)
    IN  Outcome(success(portfolio_dict, 201),
                <<"validate_request", "create_portfolio", "put_item">>,
                <<Write("PORTFOLIO_TABLE", portfolio_dict)>>, 0)

-----------------------------------------------------------------------------
(* functions/portfolios/get.py *)

\* lambda_handler of get.py; portfolio_id 0 stands for a missing path parameter
lambda_handler_get(portfolio_id, table) ==
    IF portfolio_id = 0
    THEN Outcome(bad_request, <<>>, <<>>, 0)
    ELSE
    LET portfolio_data == query_by_id(table, portfolio_id) IN
    IF portfolio_data = NoItem
    THEN Outcome(not_found, <<"query_by_id">>, <<>>, 0)
    ELSE IF from_dict_raises(portfolio_data)
    THEN Outcome(internal_server_error, <<"query_by_id", "from_dict">>, <<>>, 0)
    ELSE Outcome(success(to_dict(from_dict(portfolio_data)), 200),
                 <<"query_by_id", "from_dict", "to_dict">>, <<>>, 0)

-----------------------------------------------------------------------------
(* functions/portfolios/update.py *)

\* body.get(key, default) of an update body: has is the set of keys supplied
BodyGet_Always(body, key, default) == body[key]

BodyGet(body, key, default) == IF key \in body.has THEN body[key] ELSE default

\* validate_request of update.py accepting every body
validate_request_update_Lenient(body) == <<>>

validate_request_update(body) ==
    (IF /\ BodyGet(body, "name", "") = ""
        /\ BodyGet(body, "description", "") = ""
        /\ BodyGet(body, "assets", <<>>) = <<>>
     THEN <<Detail("At least one field (name, description, assets) is required", <<>>)>>
     ELSE <<>>)
    \o (IF "assets" \notin body.has THEN <<>>
        ELSE IF body.assets = <<>>
        THEN <<Detail("Assets cannot be empty", <<>>)>>
        ELSE IF SumOff(body.assets)
        THEN <<Detail("Asset weights must sum to 1.0", <<>>)>>
        ELSE <<>>)

\* lambda_handler of update.py; now is the time create_portfolio obtains
lambda_handler_update(portfolio_id, body, table, now) ==
    IF portfolio_id = 0
    THEN Outcome(bad_request, <<>>, <<>>, 0)
    ELSE
    LET validation_errors == validate_request_update(body) IN
    IF validation_errors # <<>>
    THEN Outcome(validation_error(validation_errors), <<"validate_request">>, <<>>, 0)
    ELSE
    LET existing_portfolio == query_by_id(table, portfolio_id) IN
    IF existing_portfolio = NoItem
    THEN Outcome(not_found, <<"validate_request", "query_by_id">>, <<>>, 0)
    ELSE
    LET name == BodyGet(body, "name", existing_portfolio.name)
        description == BodyGet(body, "description", existing_portfolio.description)
        assets == BodyGet(body, "assets", existing_portfolio.assets)
    IN
    IF validate_assets_raises(assets)
    THEN Outcome(validation_error(<<Detail("Invalid portfolio data", <<>>)>>),
                 <<"validate_request", "query_by_id", "create_portfolio">>, <<>>, 0)
    ELSE
    LET portfolio_dict == create_portfolio(name, assets, description, portfolio_id,
                                           existing_portfolio.created_at, now)
    IN  Outcome(success(portfolio_dict, 200),
                <<"validate_request", "query_by_id", "create_portfolio", "put_item">>,
                <<Write("PORTFOLIO_TABLE", portfolio_dict)>>, 0)

-----------------------------------------------------------------------------
(* functions/portfolios/delete.py *)

lambda_handler_delete(portfolio_id, table) ==
    IF portfolio_id = 0
    THEN Outcome(bad_request, <<>>, <<>>, 0)
    ELSE IF query_by_id(table, portfolio_id) = NoItem
    THEN Outcome(not_found, <<"query_by_id">>, <<>>, 0)
    ELSE Outcome(success(NoData, 204), <<"query_by_id", "delete_item">>,
                 <<Removal("PORTFOLIO_TABLE", portfolio_id)>>, 0)

-----------------------------------------------------------------------------
(* The requests the model sends *)

S1 == <<Q(1, 200), Q(-1, 200), I(0)>>
S2 == <<I(0), Q(1, 200), Q(-1, 200)>>
STwo == <<Q(1, 200), Q(-1, 200)>>
SOne == <<Q(1, 200)>>
SNaN == <<NaN, I(0), Q(1, 200)>>
SInf == <<Inf(1), I(0), Q(1, 200)>>
SConst == <<Q(1, 2), Q(1, 2), Q(1, 2)>>
SWide == <<I(0), I(0), Q(7, 10), Q(-7, 10), I(0)>>
SDiagA == <<Q(1, 10), Q(-1, 10), I(0), I(0), I(0)>>
SDiagB == <<I(0), I(0), Q(1, 10), Q(-1, 10), I(0)>>

\* returns of unequal variance, and uncorrelated returns of equal variance
OptimizationReturns ==
    {DictReturns("A" :> List(SDiagA) @@ "B" :> List(SWide)),
     DictReturns("A" :> List(SDiagA) @@ "B" :> List(SDiagB))}

NominalReturns ==
    {DictReturns("A" :> List(S1)),
     DictReturns("A" :> List(S1) @@ "B" :> List(S2))}

OddReturns ==
    {NoReturns, StrReturns, DictReturns(<<>>),
     DictReturns("B" :> List(S2)),
     DictReturns("C" :> List(S1)),
     DictReturns("A" :> NotList @@ "B" :> List(S2)),
     DictReturns("A" :> NonNumeric @@ "B" :> List(S2)),
     DictReturns("A" :> List(S1) @@ "B" :> List(STwo)),
     DictReturns("A" :> List(SOne) @@ "B" :> List(SOne)),
     DictReturns("A" :> List(<<>>) @@ "B" :> List(<<>>)),
     DictReturns("A" :> List(SNaN) @@ "B" :> List(S2)),
     DictReturns("A" :> List(SInf) @@ "B" :> List(S2)),
     DictReturns("A" :> List(SConst) @@ "B" :> List(SConst))}

BaseReturns == DictReturns("A" :> List(S1) @@ "B" :> List(S2))

PortfolioIds == 1..MaxPortfolios

NominalInvestments == {Absent, JInt(100)}
OddInvestments == {Null, JInt(0), JInt(-100), JStr, JFloat(100)}
NominalSimulations == {JInt(k) : k \in 1..MaxSimulations}
NominalPeriods == {JInt(k) : k \in 1..MaxPeriods}
OddSizes == {Absent, Null, JInt(0), JInt(-1), JFloat(1), JStr}

SimBody(id, r, ii, ns, np) ==
    [portfolioId |-> id, returns |-> r, initialInvestment |-> ii,
     numSimulations |-> ns, numPeriods |-> np]

\* Every nominal request, and every request with one field off the nominal
SimBodies ==
    {SimBody(id, r, ii, ns, np) :
        id \in PortfolioIds, r \in NominalReturns, ii \in NominalInvestments,
        ns \in NominalSimulations, np \in NominalPeriods}
    \cup {SimBody(0, BaseReturns, Absent, JInt(1), JInt(1))}
    \cup {SimBody(id, r, Absent, JInt(1), JInt(1)) :
            id \in PortfolioIds, r \in OddReturns}
    \cup {SimBody(id, BaseReturns, ii, JInt(1), JInt(1)) :
            id \in PortfolioIds, ii \in OddInvestments}
    \cup {SimBody(id, BaseReturns, Absent, ns, JInt(1)) :
            id \in PortfolioIds, ns \in OddSizes}
    \cup {SimBody(id, BaseReturns, Absent, JInt(1), np) :
            id \in PortfolioIds, np \in OddSizes}

OptBody(id, r) == [portfolioId |-> id, returns |-> r]

OptBodies ==
    {OptBody(id, r) : id \in PortfolioIds,
                      r \in NominalReturns \cup OptimizationReturns \cup OddReturns}
    \cup {OptBody(0, BaseReturns)}

AssetsInputs ==
    {<<Asset("A", I(1))>>,
     <<Asset("A", Q(1, 2)), Asset("B", Q(1, 2))>>,
     <<>>,
     <<Asset("A", Q(1, 2)), Asset("B", Q(3, 4))>>,
     <<Asset("A", Q(3, 2)), Asset("B", Q(-1, 2))>>,
     <<Asset("LONGTICKER01", I(1))>>}

CreateBody(name, description, assets) ==
    [name |-> name, description |-> description, assets |-> assets]

CreateBodies ==
    {CreateBody(name, "", assets) : name \in {"", "n1"}, assets \in AssetsInputs}

\* the bodies of the portfolio requests looked at on their own
PortfolioBodies ==
    {CreateBody(name, description, assets) :
        name \in {"", "n1"}, description \in {"", "d1"},
        assets \in {<<Asset("A", I(1))>>, <<>>,
                    <<Asset("A", Q(1, 2)), Asset("B", Q(3, 4))>>,
                    <<Asset("A", NaN)>>}}

\* the path parameter id: 0 when it is missing
PathIds == 0..MaxPortfolios

UpdateBody(has, name, description, assets) ==
    [has |-> has, name |-> name, description |-> description, assets |-> assets]

UpdateBodies ==
    {UpdateBody({}, "", "", <<>>),
     UpdateBody({"name"}, "n2", "", <<>>),
     UpdateBody({"name"}, "", "", <<>>),
     UpdateBody({"description"}, "", "d2", <<>>),
     UpdateBody({"name", "description"}, "", "d2", <<>>),
     UpdateBody({"assets"}, "", "", <<Asset("A", Q(1, 2)), Asset("B", Q(1, 2))>>),
     UpdateBody({"assets"}, "", "", <<>>),
     UpdateBody({"assets"}, "", "", <<Asset("A", Q(1, 2)), Asset("B", Q(3, 4))>>),
     UpdateBody({"assets"}, "", "", <<Asset("A", Q(3, 2)), Asset("B", Q(-1, 2))>>),
     UpdateBody({"name", "assets"}, "n2", "", <<Asset("B", I(1))>>)}

-----------------------------------------------------------------------------
(* The state machine *)

NoCall ==
    [op |-> "none", body |-> NoData, rng0 |-> 0, steps |-> <<>>, writes |-> <<>>,
     resp |-> NoData, draws |-> <<>>, solver |-> NoData, evals |-> <<>>]

Call(op, body, out) ==
    [op |-> op, body |-> body, rng0 |-> rngState, steps |-> out.steps,
     writes |-> out.writes, resp |-> out.resp, draws |-> out.draws,
     solver |-> out.solver, evals |-> out.evals]

\* the writes of one table among the put_item calls of an invocation
WritesTo(writes, table) == SelectSeq(writes, LAMBDA w : w.table = table)

\* Table.delete_item(Key={"id": key}): every item but the one of the key
Remove_All(table, key) == <<>>

Remove(table, key) == [k \in DOMAIN table \ {key} |-> table[k]]

\* Table.put_item(Item=item) or Table.delete_item(Key=key) for each write to
\* the portfolio table
RECURSIVE PutAll(_, _)
PutAll(table, writes) ==
    IF writes = <<>> THEN table
    ELSE LET w == Head(writes)
         IN  IF w.item = NoItem
             THEN PutAll(Remove(table, w.key), Tail(writes))
             ELSE PutAll((w.item.id :> w.item) @@ table, Tail(writes))

\* the effect of an invocation's put_item calls on the three tables
\* (Table.put_item is taken to store every item it is given)
Commit(out) ==
    /\ portfolioTable' = PutAll(portfolioTable, WritesTo(out.writes, "PORTFOLIO_TABLE"))
    /\ simCount' = simCount + Len(WritesTo(out.writes, "SIMULATION_RESULT_TABLE"))
    /\ optCount' = optCount + Len(WritesTo(out.writes, "OPTIMIZATION_RESULT_TABLE"))

\* the module functions of dynamo_client.py modelled, and the table names
\* the handlers pass them
ClientFunctions == {"get_item", "put_item", "delete_item"}
TableNames == {"PORTFOLIO_TABLE", "SIMULATION_RESULT_TABLE"}
Threads == 1..MaxThreads
ItemIds == {1}

Idle == [pc |-> "idle", fn |-> "", table_name |-> "", id |-> 0, used |-> "", found |-> FALSE]

\* dynamo_client = DynamoDBClient(): no table set; the tables are empty
InitClient ==
    /\ clientTable = ""
    /\ tables = [n \in TableNames |-> {}]
    /\ threads = [t \in Threads |-> Idle]

InitStatistics ==
    /\ finalValues = <<>>
    /\ stats = NoData

InitHandlers ==
    /\ portfolioTable = <<>>
    /\ nextId = 1
    /\ clock = 1
    /\ simCount = 0
    /\ optCount = 0
    /\ rngState \in RngStates
    /\ prevSim = NoCall
    /\ lastSim = NoCall
    /\ call = NoCall

\* no Portfolio has been constructed
InitModel ==
    /\ objects = [o \in 1..MaxObjects |-> NoItem]
    /\ raised = FALSE
    /\ converted = NoData

\* no invocation runs next to another
NotStarted == [pc |-> "idle", op |-> "", id |-> 0, body |-> NoData,
               existing |-> NoItem, resp |-> NoData]

InitProcs == procs = [p \in 1..MaxProcs |-> NotStarted]

Init == InitHandlers /\ InitStatistics /\ InitClient /\ InitModel /\ InitProcs

\* the initial state of the parts that draw no random numbers
InitSeeded == Init /\ rngState = 0

\* the sizes the handler passes to run_monte_carlo_simulation are within the
\* bounds of the model
SizesBounded(body) ==
    LET ns == Get(body.numSimulations, JInt(DefaultNumSimulations))
        np == Get(body.numPeriods, JInt(DefaultNumPeriods))
    IN  /\ ns.t = "int" => ns.v <= MaxSimulations
        /\ np.t = "int" => np.v <= MaxPeriods

\* POST /monte-carlo/simulate with one of the bodies
SimulateFrom(bodies) ==
    /\ call = NoCall
    /\ \E body \in bodies :
        /\ (validate_request_sim(body) = <<>> /\ ReachesCompute(body, portfolioTable))
               => SizesBounded(body)
        /\ LET out == lambda_handler_sim(body, portfolioTable, rngState)
           IN  /\ out.writes # <<>> => simCount < MaxResults
               /\ call' = Call("simulate", body, out)
               /\ Commit(out)
               /\ rngState' = out.rng
        /\ UNCHANGED <<nextId, clock, prevSim, lastSim, auxVars>>

\* POST /monte-carlo/simulate
Simulate == SimulateFrom(SimBodies)

\* what minimize can return to the handler for this request
OptSolutions(body, table) ==
    IF ReachesCompute(body, table)
    THEN LET assets == query_by_id(table, body.portfolioId).assets
         IN  minimize(initial_weights(Len(assets)),
                      np_cov(ReturnsRows(assets, body.returns)))
    ELSE {Solution(FALSE, <<>>)}

\* POST /optimization/risk-parity with one of the bodies
OptimizeFrom(bodies) ==
    /\ call = NoCall
    /\ \E body \in bodies :
        \E sol \in OptSolutions(body, portfolioTable) :
            /\ LET out == lambda_handler_opt(body, portfolioTable, sol)
               IN  /\ out.writes # <<>> => optCount < MaxResults
                   /\ call' = Call("optimize", body, out)
                   /\ Commit(out)
            /\ UNCHANGED <<nextId, clock, rngState, prevSim, lastSim, auxVars>>

\* POST /optimization/risk-parity
Optimize == OptimizeFrom(OptBodies)

\* POST /portfolios with one of the bodies
CreateFrom(bodies) ==
    /\ call = NoCall
    /\ nextId <= MaxPortfolios
    /\ \E body \in bodies :
        /\ LET out == lambda_handler_create(body, nextId, clock)
           IN  /\ call' = Call("create", body, out)
               /\ Commit(out)
               /\ nextId' = IF out.writes # <<>> THEN nextId + 1 ELSE nextId
               /\ clock' = IF out.writes # <<>> THEN clock + 1 ELSE clock
        /\ UNCHANGED <<rngState, prevSim, lastSim, auxVars>>

\* POST /portfolios
Create == CreateFrom(CreateBodies)

\* the handler returns its response and the invocation ends
Return ==
    /\ call # NoCall
    /\ call' = NoCall
    /\ UNCHANGED <<portfolioTable, nextId, clock, simCount, optCount, rngState,
                   prevSim, lastSim, auxVars>>

Next == Simulate \/ Optimize \/ Create \/ Return

Spec == Init /\ [][Next]_vars

-----------------------------------------------------------------------------
(* Direct calls of run_monte_carlo_simulation, one after the other in the    *)
(* same process                                                              *)

SimInput(rows, weights, initial_investment, num_periods, num_simulations) ==
    [weights |-> weights, mean_returns |-> np_mean(rows), cov_matrix |-> np_cov(rows),
     initial_investment |-> initial_investment, num_periods |-> num_periods,
     num_simulations |-> num_simulations]

SimInputs ==
    {SimInput(rw[1], rw[2], ii, np, ns) :
        rw \in {<<<<S1>>, <<I(1)>>>>, <<<<S1, S2>>, <<Q(1, 2), Q(1, 2)>>>>},
        ii \in {JInt(100), JInt(DefaultInitialInvestment)},
        np \in NominalPeriods, ns \in NominalSimulations}

Run(inputs, rng0, results) ==
    [op |-> "run", inputs |-> inputs, rng0 |-> rng0, results |-> results]

\* run_monte_carlo_simulation(...) called with np.random where the calls
\* before it left it
RunSimulation ==
    \E inp \in SimInputs :
        LET sim == run_monte_carlo_simulation(inp.weights, inp.mean_returns,
                       inp.cov_matrix, inp.initial_investment, inp.num_periods,
                       inp.num_simulations, rngState)
        IN  /\ prevSim' = lastSim
            /\ lastSim' = Run(inp, rngState, sim.results)
            /\ rngState' = sim.rng
            /\ UNCHANGED <<portfolioTable, nextId, clock, simCount, optCount, call, auxVars>>

NextTwoCalls == RunSimulation

SpecTwoCalls == Init /\ [][NextTwoCalls]_vars

-----------------------------------------------------------------------------
(* The statistics of the simulation handler on their own *)

MaxFinalValues == 3

\* the final values [90, 95, 100, 105, 110]
ScenarioFinalValues == <<I(90), I(95), I(100), I(105), I(110)>>

FinalValueInputs == {I(90), I(95), I(100), I(105), I(110)}

\* simulation_results[:, -1] of up to MaxFinalValues paths, in any order, the
\* five values above, and columns holding NaN
FinalVectors ==
    UNION {[1..n -> FinalValueInputs] : n \in 1..MaxFinalValues}
    \cup {ScenarioFinalValues, <<NaN>>, <<I(90), NaN>>, <<NaN, I(110)>>}

InitStats ==
    /\ InitHandlers
    /\ rngState = 0
    /\ InitClient
    /\ InitModel
    /\ InitProcs
    /\ finalValues \in FinalVectors
    /\ stats = NoData

\* lines 97-112 of the handler on final_values
CalculateStatistics ==
    /\ stats = NoData
    /\ stats' = statistics(finalValues)
    /\ UNCHANGED <<mainVars, finalValues, clientVars, modelVars, procs>>

NextStats == CalculateStatistics

SpecStats == InitStats /\ [][NextStats]_vars

-----------------------------------------------------------------------------
(* lib/db/dynamo_client.py: the module functions on the singleton client *)

\* get_item / put_item / delete_item (table_name, ...) is entered and runs
\* dynamo_client.set_table(table_name)
ModuleCall(t) ==
    /\ threads[t].pc = "idle"
    /\ \E fn \in ClientFunctions, n \in TableNames, id \in ItemIds :
          /\ threads' = [threads EXCEPT ![t] =
                 [pc |-> "set", fn |-> fn, table_name |-> n, id |-> id,
                  used |-> "", found |-> FALSE]]
          /\ clientTable' = n
    /\ UNCHANGED <<mainVars, statsVars, modelVars, procs, tables>>

\* dynamo_client.get_item / put_item / delete_item: the operation on self.table
ClientOperation(t) ==
    /\ threads[t].pc = "set"
    /\ threads' = [threads EXCEPT ![t].pc = "done", ![t].used = clientTable,
                                  ![t].found = threads[t].id \in tables[clientTable]]
    /\ tables' = [tables EXCEPT ![clientTable] =
           IF threads[t].fn = "put_item" THEN @ \cup {threads[t].id}
           ELSE IF threads[t].fn = "delete_item" THEN @ \ {threads[t].id}
           ELSE @]
    /\ UNCHANGED <<mainVars, statsVars, modelVars, procs, clientTable>>

\* the module function returns
ModuleReturn(t) ==
    /\ threads[t].pc = "done"
    /\ threads' = [threads EXCEPT ![t] = Idle]
    /\ UNCHANGED <<mainVars, statsVars, modelVars, procs, clientTable, tables>>

NextClient == \E t \in Threads : ModuleCall(t) \/ ClientOperation(t) \/ ModuleReturn(t)

SpecClient == InitSeeded /\ [][NextClient]_vars

-----------------------------------------------------------------------------
(* functions/portfolios: create, get, update and delete on the portfolio table *)

CreatePortfolio == CreateFrom(PortfolioBodies)

\* GET /portfolios/{id}
GetPortfolio ==
    /\ call = NoCall
    /\ \E id \in PathIds :
          LET out == lambda_handler_get(id, portfolioTable)
          IN  /\ call' = Call("get", [id |-> id], out)
              /\ Commit(out)
    /\ UNCHANGED <<nextId, clock, rngState, prevSim, lastSim, auxVars>>

\* PUT /portfolios/{id}
UpdatePortfolio ==
    /\ call = NoCall
    /\ clock <= MaxClock
    /\ \E id \in PathIds, body \in UpdateBodies :
          LET out == lambda_handler_update(id, body, portfolioTable, clock)
          IN  /\ call' = Call("update", [id |-> id] @@ body, out)
              /\ Commit(out)
              /\ clock' = IF out.writes # <<>> THEN clock + 1 ELSE clock
    /\ UNCHANGED <<nextId, rngState, prevSim, lastSim, auxVars>>

\* DELETE /portfolios/{id}
DeletePortfolio ==
    /\ call = NoCall
    /\ \E id \in PathIds :
          LET out == lambda_handler_delete(id, portfolioTable)
          IN  /\ call' = Call("delete", [id |-> id], out)
              /\ Commit(out)
    /\ UNCHANGED <<nextId, clock, rngState, prevSim, lastSim, auxVars>>

NextPortfolios ==
    CreatePortfolio \/ GetPortfolio \/ UpdatePortfolio \/ DeletePortfolio \/ Return

SpecPortfolios == InitSeeded /\ [][NextPortfolios]_vars

\* the compute requests sent next to the portfolio requests: a body that
\* passes validate_request and bodies that fail it, for every id
ServiceSimBodies ==
    {SimBody(id, r, ii, JInt(1), JInt(1)) :
        id \in PortfolioIds, r \in {DictReturns("A" :> List(S1)), NoReturns},
        ii \in {Absent, JInt(0)}}

ServiceOptBodies ==
    {OptBody(id, r) :
        id \in PortfolioIds, r \in {DictReturns("A" :> List(S1)), NoReturns}}

SimulateService == SimulateFrom(ServiceSimBodies)

OptimizeService == OptimizeFrom(ServiceOptBodies)

\* the portfolio handlers together with the two compute handlers
NextService ==
    \/ CreatePortfolio \/ GetPortfolio \/ UpdatePortfolio \/ DeletePortfolio
    \/ SimulateService \/ OptimizeService \/ Return

SpecService == InitSeeded /\ [][NextService]_vars

-----------------------------------------------------------------------------
(* functions/portfolios/update.py and delete.py running at the same time, each
   in its own Lambda execution environment on the one portfolio table; a step
   is what a handler does up to and including one access to the table *)

\* the portfolio in the table when the invocations start
StoredPortfolio ==
    create_portfolio("n1", <<Asset("A", I(1))>>, "d1", 1, 1, 1)

\* the update bodies of the invocations: only a name, only assets
ConcurrentBodies ==
    {UpdateBody({"name"}, "n2", "", <<>>),
     UpdateBody({"assets"}, "", "", <<Asset("A", Q(1, 2)), Asset("B", Q(1, 2))>>)}

InitConcurrent ==
    /\ portfolioTable = PutAll(<<>>, <<Write("PORTFOLIO_TABLE", StoredPortfolio)>>)
    /\ nextId = 2
    /\ clock = 2
    /\ simCount = 0
    /\ optCount = 0
    /\ rngState = 0
    /\ prevSim = NoCall
    /\ lastSim = NoCall
    /\ call = NoCall
    /\ InitStatistics
    /\ InitClient
    /\ InitModel
    /\ InitProcs

\* update.py 41-61: the path id, the body and validate_request, then
\* query_by_id(PORTFOLIO_TABLE, portfolio_id) and the 404 when there is no item
UpdateRead(p) ==
    /\ procs[p].pc = "idle"
    /\ \E id \in PortfolioIds, body \in ConcurrentBodies :
          LET existing_portfolio == query_by_id(portfolioTable, id)
          IN  procs' = [procs EXCEPT ![p] =
                 IF existing_portfolio = NoItem
                 THEN [pc |-> "done", op |-> "update", id |-> id, body |-> body,
                       existing |-> NoItem, resp |-> not_found]
                 ELSE [pc |-> "write", op |-> "update", id |-> id, body |-> body,
                       existing |-> existing_portfolio, resp |-> NoData]]
    /\ UNCHANGED <<mainVars, statsVars, clientVars, modelVars>>

\* update.py 63-83: create_portfolio from the body and the item read before,
\* put_item, and the 200
UpdateWrite(p) ==
    /\ procs[p].pc = "write"
    /\ procs[p].op = "update"
    /\ LET body == procs[p].body
           existing_portfolio == procs[p].existing
           portfolio_dict ==
               create_portfolio(BodyGet(body, "name", existing_portfolio.name),
                                BodyGet(body, "assets", existing_portfolio.assets),
                                BodyGet(body, "description", existing_portfolio.description),
                                procs[p].id, existing_portfolio.created_at, clock)
       IN  /\ portfolioTable' =
                 PutAll(portfolioTable, <<Write("PORTFOLIO_TABLE", portfolio_dict)>>)
           /\ procs' = [procs EXCEPT ![p].pc = "done",
                                     ![p].resp = success(portfolio_dict, 200)]
    /\ clock' = clock + 1
    /\ UNCHANGED <<nextId, simCount, optCount, rngState, prevSim, lastSim, call,
                   statsVars, clientVars, modelVars>>

\* delete.py 40-48: the path id, then query_by_id and the 404 when there is no
\* item
DeleteCheck(p) ==
    /\ procs[p].pc = "idle"
    /\ \E id \in PortfolioIds :
          procs' = [procs EXCEPT ![p] =
             IF query_by_id(portfolioTable, id) = NoItem
             THEN [pc |-> "done", op |-> "delete", id |-> id, body |-> NoData,
                   existing |-> NoItem, resp |-> not_found]
             ELSE [pc |-> "write", op |-> "delete", id |-> id, body |-> NoData,
                   existing |-> NoItem, resp |-> NoData]]
    /\ UNCHANGED <<mainVars, statsVars, clientVars, modelVars>>

\* delete.py 50-54: delete_item and the 204
DeleteWrite(p) ==
    /\ procs[p].pc = "write"
    /\ procs[p].op = "delete"
    /\ portfolioTable' =
          PutAll(portfolioTable, <<Removal("PORTFOLIO_TABLE", procs[p].id)>>)
    /\ procs' = [procs EXCEPT ![p].pc = "done", ![p].resp = success(NoData, 204)]
    /\ UNCHANGED <<nextId, clock, simCount, optCount, rngState, prevSim, lastSim,
                   call, statsVars, clientVars, modelVars>>

NextConcurrent ==
    \E p \in 1..MaxProcs :
        UpdateRead(p) \/ UpdateWrite(p) \/ DeleteCheck(p) \/ DeleteWrite(p)

SpecConcurrent == InitConcurrent /\ [][NextConcurrent]_vars

-----------------------------------------------------------------------------
(* lib/models/portfolio.py: Portfolio objects *)

\* the assets mappings handed to Portfolio
ModelAssets == AssetsInputs \cup {<<Asset("A", NaN)>>}

\* Portfolio(name=..., assets=...): validate_assets runs on the assets; the
\* object exists when it did not raise
Construct(o) ==
    /\ objects[o] = NoItem
    /\ \E name \in {"n1", "n2"}, assets \in ModelAssets :
          IF validate_assets_raises(assets)
          THEN raised' = TRUE /\ UNCHANGED objects
          ELSE /\ raised' = FALSE
               /\ objects' = [objects EXCEPT
                      ![o] = Portfolio(create_portfolio(name, assets, "", o, 0, 0))]
    /\ UNCHANGED <<mainVars, statsVars, clientVars, procs, converted>>

\* portfolio.assets = assets on a constructed Portfolio: the class sets no
\* model_config (no validate_assignment, not frozen), so BaseModel stores the
\* value without running validate_assets
SetAssets(o) ==
    /\ objects[o] # NoItem
    /\ \E assets \in ModelAssets :
          objects' = [objects EXCEPT ![o].assets = assets]
    /\ raised' = FALSE
    /\ UNCHANGED <<mainVars, statsVars, clientVars, procs, converted>>

\* to_dict(portfolio), then from_dict of the dictionary and to_dict of that
Convert(o) ==
    /\ objects[o] # NoItem
    /\ LET d == to_dict(objects[o])
           back == IF from_dict_raises(d) THEN NoItem ELSE from_dict(d)
       IN  converted' = [portfolio |-> objects[o], dict |-> d, back |-> back,
                         again |-> IF back = NoItem THEN NoItem ELSE to_dict(back)]
    /\ UNCHANGED <<mainVars, statsVars, clientVars, procs, objects, raised>>

NextModel == \E o \in 1..MaxObjects : Construct(o) \/ SetAssets(o) \/ Convert(o)

SpecModel == InitSeeded /\ [][NextModel]_vars

-----------------------------------------------------------------------------
(* Properties *)

IsCompute(c) == c.op \in {"simulate", "optimize"}

StepsOf(c) == {c.steps[i] : i \in DOMAIN c.steps}

ComputeSteps ==
    {"np.mean", "np.cov", "run_monte_carlo_simulation", "statistics", "minimize",
     "risk_contribution"}

\* the tickers of the stored portfolio a compute request names; none when
\* there is no such portfolio
HeldTickers(c) ==
    IF IsCompute(c) /\ c.body.portfolioId \in DOMAIN portfolioTable
    THEN {portfolioTable[c.body.portfolioId].assets[i].t :
             i \in DOMAIN portfolioTable[c.body.portfolioId].assets}
    ELSE {}

\* the held tickers the request gives a list of numbers for
SeriesTickers(c) ==
    {a \in HeldTickers(c) :
        /\ c.body.returns.t = "dict"
        /\ a \in DOMAIN c.body.returns.m
        /\ c.body.returns.m[a].t = "list"}

Series(c, a) == c.body.returns.m[a].s

Rejected(c) ==
    /\ c.resp.statusCode = 400
    /\ c.resp.code = "VALIDATION_ERROR"
    /\ StepsOf(c) \cap ComputeSteps = {}
    /\ c.writes = <<>>

\* C1: a successful simulation answers a trajectory matrix of numSimulations
\* rows and numPeriods + 1 columns, and column 0 of every row is the
\* initialInvestment of the request (the default when the field is absent).
C1_TrajectoryMatrix ==
    (call.op = "simulate" /\ call.resp.statusCode = 200
        /\ call.body.initialInvestment.t # "null") =>
        LET T == call.resp.data.result.trajectories
            invested == Get(call.body.initialInvestment, JInt(DefaultInitialInvestment))
            rows == Get(call.body.numSimulations, JInt(DefaultNumSimulations))
            periods == Get(call.body.numPeriods, JInt(DefaultNumPeriods))
        IN  /\ Len(T) = rows.v
            /\ \A i \in 1..Len(T) :
                  /\ Len(T[i]) = periods.v + 1
                  /\ T[i][1] = I(invested.v)

C1_Witness ==
    /\ call.op = "simulate"
    /\ call.resp.statusCode = 200
    /\ call.body.initialInvestment = JInt(100)
    /\ call.body.numSimulations = JInt(2)
    /\ call.body.numPeriods = JInt(2)
    /\ Len(call.resp.data.result.trajectories) = 2
    /\ call.resp.data.result.trajectories[2][1] = I(100)

\* C2: along every path of a successful simulation each value is the previous
\* value times (1 + that period's draw of the path), so two paths with the
\* same draws are equal; 10000 with the draws 0.01, -0.005 gives
\* 10000, 10100, 10049.5.
C2_Compounding ==
    (call.op = "simulate" /\ call.resp.statusCode = 200) =>
        LET T == call.resp.data.result.trajectories
            r == call.draws
        IN  /\ \A i \in 1..Len(T) : \A t \in 1..(Len(T[i]) - 1) :
                  T[i][t + 1] = Mul(T[i][t], Add(I(1), r[i][t]))
            /\ \A i, j \in 1..Len(T) : r[i] = r[j] => T[i] = T[j]
            /\ \A i \in 1..Len(T) :
                  (T[i][1] = I(10000) /\ r[i] = <<Q(1, 100), Q(-1, 200)>>)
                      => T[i] = <<I(10000), I(10100), Q(20099, 2)>>

C2_Witness ==
    /\ call.op = "simulate"
    /\ call.resp.statusCode = 200
    /\ call.draws = <<<<Q(1, 100), Q(-1, 200)>>>>
    /\ call.resp.data.result.trajectories = <<<<I(10000), I(10100), Q(20099, 2)>>>>

\* C3: two calls of the simulation with identical inputs produce identical
\* trajectories.
C3_IdenticalInputsIdenticalTrajectories ==
    (prevSim.op = "run" /\ lastSim.op = "run" /\ prevSim.inputs = lastSim.inputs)
        => prevSim.results = lastSim.results

\* C4: a simulation or optimization request whose series have different
\* lengths across the assets of the portfolio is answered VALIDATION_ERROR,
\* without computation and without a stored result.
C4_MismatchedLengthsRejected ==
    (/\ IsCompute(call)
     /\ HeldTickers(call) # {}
     /\ SeriesTickers(call) = HeldTickers(call)
     /\ \E a, b \in SeriesTickers(call) : Len(Series(call, a)) # Len(Series(call, b)))
        => Rejected(call)

\* C5: a request with a series of fewer than 2 values, or with a NaN or
\* infinite value, for an asset of the portfolio is answered a validation error
\* before any mean or covariance is computed.
C5_ShortOrNonFiniteSeriesRejected ==
    (/\ IsCompute(call)
     /\ \E a \in SeriesTickers(call) :
           \/ Len(Series(call, a)) < 2
           \/ \E k \in DOMAIN Series(call, a) : ~IsFinite(Series(call, a)[k]))
        => Rejected(call)

\* numPeriods or numSimulations given but not a positive integer
WrongSize(x) == x.t \in {"null", "str", "float"} \/ (x.t = "int" /\ x.v <= 0)

\* initialInvestment given but not a positive number
WrongAmount(x) == x.t \in {"null", "str"} \/ (x.t \in {"int", "float"} /\ x.v <= 0)

\* C6: a simulation request whose numPeriods, numSimulations or
\* initialInvestment is zero, negative or of the wrong type is answered 400
\* VALIDATION_ERROR before the portfolio is looked up; a successful request
\* that leaves one of them out is run with the default.
C6_ParametersValidated ==
    /\ (/\ call.op = "simulate"
        /\ \/ WrongSize(call.body.numPeriods)
           \/ WrongSize(call.body.numSimulations)
           \/ WrongAmount(call.body.initialInvestment))
           => (Rejected(call) /\ call.steps = <<"validate_request">>)
    /\ (call.op = "simulate" /\ call.resp.statusCode = 200) =>
           LET p == call.resp.data.parameters
           IN  /\ call.body.initialInvestment = Absent
                     => p.initialInvestment = JInt(DefaultInitialInvestment)
               /\ call.body.numSimulations = Absent
                     => p.numSimulations = JInt(DefaultNumSimulations)
               /\ call.body.numPeriods = Absent
                     => p.numPeriods = JInt(DefaultNumPeriods)

\* the tickers of the stored portfolio the returns of the request have no entry for
MissingTickers(c) ==
    {a \in HeldTickers(c) : c.body.returns.t # "dict" \/ a \notin DOMAIN c.body.returns.m}

C8_WeightsNormalized ==
    (call.op = "optimize" /\ call.resp.statusCode = 200) =>
        LET w == Weights(call.resp.data.result.weights)
        IN  /\ Leq(AbsNum(Sub(SumSeq(w), I(1))), Q(1, 1000000))
            /\ \A i \in 1..Len(w) : Leq(I(0), w[i]) /\ Leq(w[i], I(1))

C8_Witness ==
    /\ call.op = "optimize"
    /\ call.resp.statusCode = 200
    /\ SumSeq(call.solver.x) # I(1)
    /\ Len(call.resp.data.result.weights) = 2

\* C9: when the solver reports failure the optimization is answered
\* OPTIMIZATION_ERROR, a code that is neither that of a validation failure nor
\* that of an internal failure, and no result is stored.
C9_SolverFailure ==
    (call.op = "optimize" /\ "minimize" \in StepsOf(call) /\ ~call.solver.success) =>
        /\ call.resp.code = "OPTIMIZATION_ERROR"
        /\ call.resp.code # validation_error(<<>>).code
        /\ call.resp.code # internal_server_error.code
        /\ call.resp.statusCode # 200
        /\ call.writes = <<>>

C9_Witness ==
    /\ call.op = "optimize"
    /\ "minimize" \in StepsOf(call)
    /\ ~call.solver.success
    /\ call.resp.statusCode = 500
    /\ optCount = 0

\* C10: when the portfolio volatility is zero at a point the objective is
\* evaluated at, the optimization is answered a degenerate-input error: it
\* does not divide by zero, carry on with the NaN, and answer a result or the
\* solver's failure.
C10_ZeroVolatilityRejected ==
    (call.op = "optimize" /\ \E k \in DOMAIN call.evals : call.evals[k].vol = I(0)) =>
        /\ call.resp.statusCode # 200
        /\ call.resp.code \notin {"OPTIMIZATION_ERROR", "INTERNAL_SERVER_ERROR"}
        /\ call.writes = <<>>

\* the numbers of a successful simulation or optimization result
ResultNumbers(op, data) ==
    IF op = "simulate"
    THEN LET T == data.result.trajectories
             st == data.result.statistics
         IN  {T[i][t] : i \in DOMAIN T, t \in 1..(data.parameters.numPeriods.v + 1)}
             \cup {st.meanFinalValue, st.medianFinalValue, st.minFinalValue,
                   st.maxFinalValue, st.standardDeviation, st.percentiles.p5,
                   st.percentiles.p25, st.percentiles.p50, st.percentiles.p75,
                   st.percentiles.p95}
    ELSE LET w == data.result.weights
             m == data.result.metrics
         IN  {w[i].w : i \in DOMAIN w}
             \cup {m.riskContribution[i].w : i \in DOMAIN m.riskContribution}
             \cup {m.portfolioVolatility}

\* C11: the body of a successful simulation or optimization response, and
\* the item stored for it, hold no NaN and no Infinity.
C11_FiniteResults ==
    (IsCompute(call) /\ call.resp.statusCode = 200) =>
        /\ \A x \in ResultNumbers(call.op, call.resp.data) : IsFinite(x)
        /\ \A k \in DOMAIN call.writes :
              \A x \in ResultNumbers(call.op, call.writes[k].item) : IsFinite(x)

\* C14: the percentiles a successful simulation reports are in order:
\* p5 <= p25 <= p50 <= p75 <= p95.
C14_PercentilesOrdered ==
    (call.op = "simulate" /\ call.resp.statusCode = 200) =>
        LET p == call.resp.data.result.statistics.percentiles
        IN  Leq(p.p5, p.p25) /\ Leq(p.p25, p.p50) /\ Leq(p.p50, p.p75) /\ Leq(p.p75, p.p95)

\* C15 as stated: for the final values 90, 95, 100, 105, 110 the mean is 100,
\* the median 100, the minimum 90, the maximum 110 and p5 is about 90.2.
C15_ScenarioAsStated ==
    (finalValues = ScenarioFinalValues /\ stats # NoData) =>
        /\ stats.meanFinalValue = I(100)
        /\ stats.medianFinalValue = I(100)
        /\ stats.minFinalValue = I(90)
        /\ stats.maxFinalValue = I(110)
        /\ Leq(AbsNum(Sub(stats.percentiles.p5, Q(902, 10))), Q(1, 2))

\* C15: for the final values 90, 95, 100, 105, 110 the mean is 100, the
\* median 100, the minimum 90, the maximum 110 and, by linear interpolation
\* between the order statistics, p5 is 90 + 0.2 * (95 - 90) = 91.
C15_Scenario ==
    (finalValues = ScenarioFinalValues /\ stats # NoData) =>
        /\ stats.meanFinalValue = I(100)
        /\ stats.medianFinalValue = I(100)
        /\ stats.minFinalValue = I(90)
        /\ stats.maxFinalValue = I(110)
        /\ stats.percentiles.p5 = I(91)

C15_Witness ==
    /\ finalValues = ScenarioFinalValues
    /\ stats # NoData
    /\ stats.percentiles.p25 = I(95)
    /\ stats.percentiles.p95 = I(109)

\* the covariance matrix of the request of a compute invocation that got
\* past np.array
CovOf(c) ==
    np_cov(ReturnsRows(portfolioTable[c.body.portfolioId].assets, c.body.returns))

\* C12: the portfolioVolatility and riskContribution of a successful
\* optimization are those of the reported, normalized weights w:
\* portfolioVolatility = sqrt(w' Cov w) and
\* riskContribution[i] = w[i] * (Cov w)[i] / portfolioVolatility, asset by asset.
C12_MetricsOfReportedWeights ==
    (call.op = "optimize" /\ call.resp.statusCode = 200) =>
        LET r == call.resp.data.result
            w == Weights(r.weights)
            cov == CovOf(call)
            vol == Sqrt(Dot(w, MatVec(cov, w)))
        IN  /\ r.metrics.portfolioVolatility = vol
            /\ Len(r.metrics.riskContribution) = Len(w)
            /\ \A i \in 1..Len(w) :
                  /\ r.metrics.riskContribution[i].t = r.weights[i].t
                  /\ r.metrics.riskContribution[i].w
                         = Div(Mul(w[i], MatVec(cov, w)[i]), vol)

C12_Witness ==
    /\ call.op = "optimize"
    /\ call.resp.statusCode = 200
    /\ SumSeq(call.solver.x) # I(1)
    /\ IsFinite(call.resp.data.result.metrics.portfolioVolatility)
    /\ call.resp.data.result.metrics.portfolioVolatility
           # portfolio_volatility(call.solver.x, CovOf(call))

\* a diagonal matrix with one positive variance on the whole diagonal
DiagonalEqual(cov) ==
    /\ \A i, j \in 1..Len(cov) : i # j => cov[i][j] = I(0)
    /\ \A i \in 1..Len(cov) : cov[i][i] = cov[1][1]
    /\ IsFinite(cov[1][1]) /\ cov[1][1].n > 0

Near(x, y) == Leq(AbsNum(Sub(x, y)), Q(1, 1000))

C16_OwnTable ==
    \A t \in Threads : threads[t].pc = "done" => threads[t].used = threads[t].table_name

\* the conditions on an assets mapping: non-empty, tickers of at most 10
\* characters, weights in [0,1] that sum to 1.0 within 1e-4
ValidAssets(assets) ==
    /\ assets # <<>>
    /\ \A i \in 1..Len(assets) :
          /\ TickerLen(assets[i].t) <= 10
          /\ IsFinite(assets[i].w)
          /\ Leq(I(0), assets[i].w)
          /\ Leq(assets[i].w, I(1))
    /\ Leq(AbsNum(Sub(SumSeq(Weights(assets)), I(1))), Q(1, 10000))

\* C17: every Portfolio that exists, newly constructed or changed since, has a
\* non-empty assets mapping with tickers of at most 10 characters and weights
\* in [0,1] that sum to 1.0 within 1e-4.
C17_PortfolioValid ==
    \A o \in 1..MaxObjects : objects[o] # NoItem => ValidAssets(objects[o].assets)

\* a portfolio request that starts in this step
Starts(op) == call = NoCall /\ call'.op = op

\* C18: a create request with a name and valid assets returns 201 with a
\* fresh id, created_at, updated_at and the submitted name, description and
\* assets; the item is in the store under that id, and a get of that id that
\* follows returns 200 with the same id, name, description and assets.
C18_CreateThenGet ==
    [][(/\ Starts("create")
        /\ call'.body.name # ""
        /\ ValidAssets(call'.body.assets))
       => /\ call'.resp.statusCode = 201
          /\ LET item == call'.resp.data
                 body == call'.body
                 got == lambda_handler_get(item.id, portfolioTable').resp
             IN  /\ {"id", "created_at", "updated_at"} \subseteq DOMAIN item
                 /\ item.id \notin DOMAIN portfolioTable
                 /\ item.name = body.name
                 /\ item.description = body.description
                 /\ item.assets = body.assets
                 /\ item.id \in DOMAIN portfolioTable'
                 /\ portfolioTable'[item.id] = item
                 /\ got.statusCode = 200
                 /\ got.data.id = item.id
                 /\ got.data.name = item.name
                 /\ got.data.description = item.description
                 /\ got.data.assets = item.assets]_vars

\* a get that returns a created portfolio with its description
C18_Witness ==
    /\ call.op = "get"
    /\ call.resp.statusCode = 200
    /\ call.resp.data = portfolioTable[call.body.id]
    /\ call.resp.data.description = "d1"
    /\ call.resp.data.created_at = call.resp.data.updated_at

\* C19: a successful update keeps id and created_at, replaces each of name,
\* description and assets that the body supplies, leaves the others at their
\* stored values, and writes the result under the same id with status 200.
C19_UpdateMerges ==
    [][(Starts("update") /\ call'.resp.statusCode = 200)
       => LET id == call'.body.id
              body == call'.body
              new == call'.resp.data
          IN  /\ id \in DOMAIN portfolioTable
              /\ new.id = id
              /\ new.created_at = portfolioTable[id].created_at
              /\ \A k \in {"name", "description", "assets"} :
                    new[k] = IF k \in body.has THEN body[k] ELSE portfolioTable[id][k]
              /\ DOMAIN portfolioTable' = DOMAIN portfolioTable
              /\ portfolioTable'[id] = new
              /\ \A k \in DOMAIN portfolioTable \ {id} :
                    portfolioTable'[k] = portfolioTable[k]]_vars

\* an update that supplies only a name and keeps the stored description
C19_Witness ==
    /\ call.op = "update"
    /\ call.resp.statusCode = 200
    /\ call.body.has = {"name"}
    /\ call.resp.data.name = "n2"
    /\ call.resp.data.description = "d1"
    /\ portfolioTable[call.body.id] = call.resp.data

\* C20: deleting an existing portfolio returns 204 and removes exactly the item
\* with that id, every other item unchanged; a get of an id that is not in the
\* store returns 404.
C20_DeleteRemoves ==
    [][/\ (Starts("delete") /\ call'.body.id \in DOMAIN portfolioTable)
          => LET id == call'.body.id
             IN  /\ call'.resp.statusCode = 204
                 /\ DOMAIN portfolioTable' = DOMAIN portfolioTable \ {id}
                 /\ \A k \in DOMAIN portfolioTable' :
                       portfolioTable'[k] = portfolioTable[k]
                 /\ lambda_handler_get(id, portfolioTable').resp.statusCode = 404
       /\ (/\ Starts("get")
           /\ call'.body.id # 0
           /\ call'.body.id \notin DOMAIN portfolioTable')
          => call'.resp.statusCode = 404]_vars

\* a delete of one portfolio that leaves the other in the store
C20_Witness ==
    /\ call.op = "delete"
    /\ call.resp.statusCode = 204
    /\ call.body.id \notin DOMAIN portfolioTable
    /\ DOMAIN portfolioTable # {}

\* the request that starts in this step names an id without an item in the
\* store and carries a body its handler's validate_request accepts
AbsentIdRequest ==
    \/ /\ \/ Starts("get")
          \/ Starts("delete")
          \/ Starts("update") /\ validate_request_update(call'.body) = <<>>
       /\ call'.body.id # 0
       /\ call'.body.id \notin DOMAIN portfolioTable
    \/ /\ Starts("simulate")
       /\ validate_request_sim(call'.body) = <<>>
       /\ call'.body.portfolioId \notin DOMAIN portfolioTable
    \/ /\ Starts("optimize")
       /\ ReturnsErrors(call'.body) = <<>>
       /\ call'.body.portfolioId \notin DOMAIN portfolioTable

\* C21: get, update and delete of an id without an item in the store, and
\* simulate and optimize for such a portfolioId, return 404 NOT_FOUND and leave
\* the store as it was.
C21_NotFound ==
    [][AbsentIdRequest
       => /\ call'.resp.statusCode = 404
          /\ call'.resp.code = "NOT_FOUND"
          /\ portfolioTable' = portfolioTable
          /\ simCount' = simCount
          /\ optCount' = optCount]_vars

\* a simulation request with a valid body for an id that was deleted
C21_Witness ==
    /\ call.op = "simulate"
    /\ validate_request_sim(call.body) = <<>>
    /\ call.body.portfolioId < nextId
    /\ call.body.portfolioId \notin DOMAIN portfolioTable
    /\ call.resp.statusCode = 404

PortfolioFields == {"id", "name", "description", "assets", "created_at", "updated_at"}

PortfolioInvariant(item) ==
    /\ item.assets # <<>>
    /\ \A i \in 1..Len(item.assets) :
          /\ IsFinite(item.assets[i].w)
          /\ Leq(I(0), item.assets[i].w)
          /\ Leq(item.assets[i].w, I(1))
    /\ Leq(AbsNum(Sub(SumSeq(Weights(item.assets)), I(1))), Q(1, 10000))

\* C23: after every create, update or delete every item of the portfolio table
\* satisfies the Portfolio invariant, and a create or update answered with 400
\* leaves the table as it was.
C23_StoredItemsValid ==
    [][/\ \A id \in DOMAIN portfolioTable' : PortfolioInvariant(portfolioTable'[id])
       /\ ((Starts("create") \/ Starts("update")) /\ call'.resp.statusCode = 400)
          => portfolioTable' = portfolioTable]_vars

\* the invocations that have returned
Finished(op, status) ==
    {p \in 1..MaxProcs : /\ procs[p].pc = "done"
                         /\ procs[p].op = op
                         /\ procs[p].resp.statusCode = status}

\* C24: once a delete of an id has returned 204 (no create for the id follows:
\* ids are not reused), the id has no item in the store, whatever an update of
\* the same id does at the same time.
C24_DeletedStaysDeleted ==
    \A p \in Finished("delete", 204) : procs[p].id \notin DOMAIN portfolioTable

\* C25: two updates of one portfolio that have both returned 200, one with only
\* a name and one with only assets, are both in the stored item.
C25_BothUpdatesStored ==
    \A p, q \in Finished("update", 200) :
        (/\ procs[p].id = procs[q].id
         /\ procs[p].body.has = {"name"}
         /\ procs[q].body.has = {"assets"})
        => /\ procs[p].id \in DOMAIN portfolioTable
           /\ portfolioTable[procs[p].id].name = procs[p].body.name
           /\ portfolioTable[procs[p].id].assets = procs[q].body.assets

\* the result table of a compute handler
ResultTable(op) ==
    IF op = "simulate" THEN "SIMULATION_RESULT_TABLE" ELSE "OPTIMIZATION_RESULT_TABLE"

\* C26: a simulation or optimization invocation writes one item, equal to the
\* response body, to its result table exactly when it returns 200; with any
\* other status it writes nothing and both result tables are as before; the
\* portfolio table is never written.
C26_WriteExactlyOnSuccess ==
    [][(Starts("simulate") \/ Starts("optimize"))
       => LET w == call'.writes IN
          /\ portfolioTable' = portfolioTable
          /\ WritesTo(w, "PORTFOLIO_TABLE") = <<>>
          /\ IF call'.resp.statusCode = 200
             THEN /\ Len(w) = 1
                  /\ w[1].table = ResultTable(call'.op)
                  /\ w[1].item = call'.resp.data
                  /\ simCount' + optCount' = simCount + optCount + 1
                  /\ simCount' = simCount + (IF call'.op = "simulate" THEN 1 ELSE 0)
             ELSE /\ w = <<>>
                  /\ call'.resp.statusCode \in {400, 404, 500}
                  /\ simCount' = simCount
                  /\ optCount' = optCount]_vars

\* an optimization has returned 200 and its result is the one item written
C26_Witness ==
    /\ call.op = "optimize"
    /\ call.resp.statusCode = 200
    /\ Len(call.writes) = 1
    /\ call.writes[1].item = call.resp.data
    /\ optCount = 1
    /\ simCount = 0

\* bodies that are invalid whatever the store holds: an update without any
\* field or with empty or non-normalised assets, a compute request without
\* returns, a simulation with a zero investment
InvalidBody(c) ==
    \/ /\ c.op = "update"
       /\ \/ c.body.has = {}
          \/ "assets" \in c.body.has /\ c.body.assets = <<>>
          \/ "assets" \in c.body.has /\ SumOff(c.body.assets)
    \/ /\ c.op \in {"simulate", "optimize"}
       /\ c.body.returns = NoReturns
    \/ /\ c.op = "simulate"
       /\ c.body.initialInvestment = JInt(0)

\* the request of the invocation fails its handler's validate_request
FailsValidation(c) ==
    \/ InvalidBody(c)
    \/ c.op = "update" /\ c.body.id # 0 /\ validate_request_update(c.body) # <<>>
    \/ c.op = "simulate" /\ validate_request_sim(c.body) # <<>>
    \/ c.op = "optimize" /\ ReturnsErrors(c.body) # <<>>

\* C27: a simulate, optimize or update request whose body fails
\* validate_request is answered with 400 VALIDATION_ERROR before the store is
\* read or written, whether or not the portfolio exists.
C27_ValidationBeforeStore ==
    (/\ call.op \in {"simulate", "optimize", "update"}
     /\ call.op = "update" => call.body.id # 0
     /\ FailsValidation(call))
    => /\ call.resp.statusCode = 400
       /\ call.resp.code = "VALIDATION_ERROR"
       /\ call.steps = <<"validate_request">>
       /\ call.writes = <<>>

\* an update without any field for an id that is not in the store
C27_Witness ==
    /\ call.op = "update"
    /\ call.body.id # 0
    /\ call.body.id \notin DOMAIN portfolioTable
    /\ call.body.has = {}
    /\ call.resp.statusCode = 400
    /\ call.resp.code = "VALIDATION_ERROR"

\* the request of a compute invocation without the series of the tickers
\* that are not in the stored portfolio
HeldOnly(c) ==
    [c.body EXCEPT !.returns =
        DictReturns([t \in DOMAIN c.body.returns.m \cap HeldTickers(c) |->
                        c.body.returns.m[t]])]

\* the stored assets of the portfolio a compute invocation names
StoredAssets(c) == portfolioTable[c.body.portfolioId].assets

\* the series of the i-th key of the stored assets, for every i
RowsByAsset(c) ==
    [i \in 1..Len(StoredAssets(c)) |-> Series(c, StoredAssets(c)[i].t)]

C29_StatisticsConsistent ==
    (call.op = "simulate" /\ call.resp.statusCode = 200)
    => LET st == call.resp.data.result.statistics
       IN  /\ Len(call.resp.data.result.trajectories) >= 1
           /\ Leq(st.minFinalValue, st.percentiles.p5)
           /\ Leq(st.percentiles.p95, st.maxFinalValue)
           /\ Leq(st.minFinalValue, st.meanFinalValue)
           /\ Leq(st.meanFinalValue, st.maxFinalValue)
           /\ Leq(st.medianFinalValue, st.percentiles.p50)
           /\ Leq(st.percentiles.p50, st.medianFinalValue)
           /\ Leq(I(0), st.standardDeviation)

====
